---- MODULE Spec2Model ----
(***************************************************************************)
(* The expense ledger of despesas-casa: the Express handlers of            *)
(* src/despesas-casa/api/index.js (paged index, summary, add, edit,        *)
(* delete) and the index handler of the older src/unnamed/part_000, over   *)
(* one Expense collection.                                                 *)
(*                                                                         *)
(* Modelling domain: amounts are integers (an amount in cents), a Date is  *)
(* its day number since 1970-01-01 (all dates at midnight of one time      *)
(* zone), query values are strings of characters or undefined.             *)
(***************************************************************************)
EXTENDS Integers, Sequences, FiniteSets, TLC

VARIABLES store, req, resp

vars == <<store, req, resp>>

\* Largest number of documents the collection holds in the model.
MaxStore == 2

----------------------------------------------------------------------------
(* JavaScript values: undefined, a string (a sequence of characters), a    *)
(* number, NaN, Infinity.                                                  *)

Undefined == [t |-> "undef", v |-> 0, s |-> <<>>]
Str(chars) == [t |-> "str", v |-> 0, s |-> chars]
Num(n) == [t |-> "num", v |-> n, s |-> <<>>]
NaN == [t |-> "nan", v |-> 0, s |-> <<>>]
Infinity == [t |-> "inf", v |-> 0, s |-> <<>>]

IsNum(x) == x.t = "num"

DigitVal ==
  [c \in {"0", "1", "2", "3", "4", "5", "6", "7", "8", "9"} |->
     CASE c = "0" -> 0 [] c = "1" -> 1 [] c = "2" -> 2 [] c = "3" -> 3
       [] c = "4" -> 4 [] c = "5" -> 5 [] c = "6" -> 6 [] c = "7" -> 7
       [] c = "8" -> 8 [] c = "9" -> 9]

IsDigit(c) == c \in DOMAIN DigitVal

\* The characters of s from position i on.
Rest(s, i) == IF i > Len(s) THEN <<>> ELSE SubSeq(s, i, Len(s))

\* Leading white space removed.
RECURSIVE TrimLeft(_)
TrimLeft(s) == IF s # <<>> /\ Head(s) = " " THEN TrimLeft(Tail(s)) ELSE s

\* The longest prefix of s made of digits.
RECURSIVE DigitPrefix(_)
DigitPrefix(s) ==
  IF s # <<>> /\ IsDigit(Head(s)) THEN <<Head(s)>> \o DigitPrefix(Tail(s)) ELSE <<>>

\* The value of a sequence of digits, read in base 10.
RECURSIVE DigitsValue(_, _)
DigitsValue(s, acc) ==
  IF s = <<>> THEN acc ELSE DigitsValue(Tail(s), 10 * acc + DigitVal[Head(s)])

\* parseInt of a string: white space, an optional sign, then the longest run
\* of digits; what follows the digits is ignored; no digit at all gives NaN.
ParseIntChars(chars) ==
  LET t == TrimLeft(chars)
      neg == t # <<>> /\ Head(t) = "-"
      u == IF t # <<>> /\ Head(t) \in {"-", "+"} THEN Tail(t) ELSE t
      d == DigitPrefix(u)
  IN  IF d = <<>> THEN NaN
      ELSE Num(IF neg THEN 0 - DigitsValue(d, 0) ELSE DigitsValue(d, 0))

\* parseInt(x): x is converted to a string first.
parseInt(x) ==
  CASE x.t = "str" -> ParseIntChars(x.s)
    [] x.t = "num" -> x
    [] OTHER -> NaN

\* parseFloat on the strings of the model, which hold no fraction and no
\* exponent: the same prefix rule as parseInt.
parseFloat(x) == parseInt(x)

\* ToNumber, the conversion the operators - * / apply to an operand: the whole
\* string must be a numeral, the empty string is 0.
ToNumber(x) ==
  CASE x.t = "str" ->
         LET t == TrimLeft(x.s)
             neg == t # <<>> /\ Head(t) = "-"
             u == IF t # <<>> /\ Head(t) \in {"-", "+"} THEN Tail(t) ELSE t
         IN  IF t = <<>> THEN Num(0)
             ELSE IF u # <<>> /\ DigitPrefix(u) = u
                  THEN Num(IF neg THEN 0 - DigitsValue(u, 0) ELSE DigitsValue(u, 0))
                  ELSE NaN
    [] x.t = "undef" -> NaN
    [] OTHER -> x

\* The truth value of x in a condition (x ? a : b, !x).
Truthy(x) ==
  CASE x.t = "str" -> x.s # <<>>
    [] x.t = "num" -> x.v # 0
    [] x.t = "inf" -> TRUE
    [] OTHER -> FALSE

\* a - b
JsSub(a, b) ==
  LET x == ToNumber(a)
      y == ToNumber(b)
  IN  IF IsNum(x) /\ IsNum(y) THEN Num(x.v - y.v) ELSE NaN

\* a + b, on numbers
JsAdd(a, b) ==
  LET x == ToNumber(a)
      y == ToNumber(b)
  IN  IF IsNum(x) /\ IsNum(y) THEN Num(x.v + y.v) ELSE NaN

\* a * b
JsMul(a, b) ==
  LET x == ToNumber(a)
      y == ToNumber(b)
  IN  IF IsNum(x) /\ IsNum(y) THEN Num(x.v * y.v) ELSE NaN

\* Math.ceil(a / b) for a >= 0: division by zero gives Infinity, 0 / 0 NaN.
CeilDiv(a, b) ==
  LET x == ToNumber(a)
      y == ToNumber(b)
  IN  IF ~(IsNum(x) /\ IsNum(y)) THEN NaN
      ELSE IF y.v = 0 THEN (IF x.v = 0 THEN NaN ELSE Infinity)
      ELSE IF y.v > 0 THEN Num((x.v + y.v - 1) \div y.v)
      ELSE Num(0 - (x.v \div (0 - y.v)))

----------------------------------------------------------------------------
(* Dates. A Date is the number of its day, day 0 being 1970-01-01.         *)

\* The day number of the calendar date y-m-d (m in 1..12); a day past the
\* month's end runs on into the next month.
DaysFromCivil(y, m, d) ==
  LET yy == IF m <= 2 THEN y - 1 ELSE y
      era == yy \div 400
      yoe == yy - era * 400
      mp == IF m > 2 THEN m - 3 ELSE m + 9
      doy == (153 * mp + 2) \div 5 + d - 1
      doe == yoe * 365 + yoe \div 4 - yoe \div 100 + doy
  IN  era * 146097 + doe - 719468

\* The calendar date of day number z.
CivilFromDays(z) ==
  LET zz == z + 719468
      era == zz \div 146097
      doe == zz - era * 146097
      yoe == (doe - doe \div 1460 + doe \div 36524 - doe \div 146096) \div 365
      doy == doe - (365 * yoe + yoe \div 4 - yoe \div 100)
      mp == (5 * doy + 2) \div 153
      d == doy - (153 * mp + 2) \div 5 + 1
      m == IF mp < 10 THEN mp + 3 ELSE mp - 9
      y == yoe + era * 400 + (IF m <= 2 THEN 1 ELSE 0)
  IN  [year |-> y, month |-> m, day |-> d]

\* date.getMonth(): 0 to 11.
getMonth(date) == CivilFromDays(date).month - 1

\* date.getFullYear()
getFullYear(date) == CivilFromDays(date).year

\* new Date(year, monthIndex, day): a year of 0..99 means 1900 + year, a
\* month index outside 0..11 carries into the year, NaN gives an invalid Date.
NewDate(year, monthIndex, day) ==
  IF ~(IsNum(year) /\ IsNum(monthIndex)) THEN NaN
  ELSE LET yr == IF year.v \in 0..99 THEN 1900 + year.v ELSE year.v
           ym == yr + monthIndex.v \div 12
           mn == monthIndex.v % 12
       IN  Num(DaysFromCivil(ym, mn + 1, day))

\* new Date(x) of a body field: the string "yyyy-mm-dd" is that calendar
\* date; anything else of the model (undefined, the empty string) is an
\* invalid Date.
ParseDate(x) ==
  IF /\ x.t = "str"
     /\ Len(x.s) = 10
     /\ x.s[5] = "-"
     /\ x.s[8] = "-"
     /\ \A i \in {1, 2, 3, 4, 6, 7, 9, 10} : IsDigit(x.s[i])
  THEN Num(DaysFromCivil(DigitsValue(SubSeq(x.s, 1, 4), 0),
                         DigitsValue(SubSeq(x.s, 6, 7), 0),
                         DigitsValue(SubSeq(x.s, 9, 10), 0)))
  ELSE NaN

----------------------------------------------------------------------------
(* The Expense collection: a sequence of documents in natural order. A     *)
(* document is [amount, date]; name and category are stored too but no     *)
(* handler computes with them. A document is named by its position, the    *)
(* position 0 standing for an id that names no document.                   *)

RECURSIVE SumAmounts(_)
SumAmounts(docs) ==
  IF docs = <<>> THEN 0 ELSE Head(docs).amount + SumAmounts(Tail(docs))

\* Expense.find({})
FindAll(docs) == docs

\* cursor.skip(n).limit(l): a limit of 0 is no limit, a negative limit is its
\* absolute value.
SkipLimit(docs, n, l) ==
  LET rest == Rest(docs, n + 1)
      k == IF l < 0 THEN 0 - l ELSE l
  IN  IF k = 0 \/ k >= Len(rest) THEN rest ELSE SubSeq(rest, 1, k)

\* Expense.find({ date: { $gte: gte, $lt: lt } })
FindRange(docs, gte, lt) ==
  SelectSeq(docs, LAMBDA e : gte <= e.date /\ e.date < lt)

\* Expense.countDocuments()
countDocuments(docs) == Len(docs)

\* The $group stage: one document per (month, year) of a date, with the sum
\* of the amounts of the documents of that month.
GroupStage(docs) ==
  { [_id |-> [month |-> CivilFromDays(docs[i].date).month,
              year |-> CivilFromDays(docs[i].date).year],
     totalAmount |->
       SumAmounts(SelectSeq(docs, LAMBDA e :
         /\ CivilFromDays(e.date).month = CivilFromDays(docs[i].date).month
         /\ CivilFromDays(e.date).year = CivilFromDays(docs[i].date).year))]
    : i \in 1..Len(docs) }

\* $sort: { "_id.year": 1, "_id.month": 1 }
IdBefore(a, b) ==
  \/ a._id.year < b._id.year
  \/ a._id.year = b._id.year /\ a._id.month < b._id.month

RECURSIVE SortStage(_)
SortStage(groups) ==
  IF groups = {} THEN <<>>
  ELSE LET first == CHOOSE g \in groups :
                      \A h \in groups \ {g} : IdBefore(g, h)
       IN  <<first>> \o SortStage(groups \ {first})

\* Expense.aggregate([{ $group }, { $sort }])
Aggregate(docs) == SortStage(GroupStage(docs))

----------------------------------------------------------------------------
(* A JavaScript object with string keys: its properties in insertion       *)
(* order, which is the order its keys are enumerated in.                   *)

ObjKeys(obj) == [i \in 1..Len(obj) |-> obj[i].key]

ObjHas(obj, key) == \E i \in 1..Len(obj) : obj[i].key = key

ObjGet(obj, key) == obj[CHOOSE i \in 1..Len(obj) : obj[i].key = key].value

\* obj[key] = value: an existing property keeps its place.
ObjSet(obj, key, value) ==
  IF ObjHas(obj, key)
  THEN [i \in 1..Len(obj) |->
          IF obj[i].key = key THEN [key |-> key, value |-> value] ELSE obj[i]]
  ELSE Append(obj, [key |-> key, value |-> value])

\* `${month}/${year}`
MonthKey(month, year) == ToString(month) \o "/" \o ToString(year)

\* The forEach body with = in the place of +=: the last amount of a month
\* in the place of the sum.
GroupStepAssigns(monthlyExpenses, expense) ==
  ObjSet(monthlyExpenses,
         MonthKey(getMonth(expense.date) + 1, getFullYear(expense.date)),
         expense.amount)

\* The body of the forEach of the older groupExpensesByMonth.
GroupStep(monthlyExpenses, expense) ==
  LET month == getMonth(expense.date) + 1
      year == getFullYear(expense.date)
      key == MonthKey(month, year)
      \* if (!monthlyExpenses[key]) monthlyExpenses[key] = 0
      cur == IF ObjHas(monthlyExpenses, key) /\ ObjGet(monthlyExpenses, key) # 0
             THEN ObjGet(monthlyExpenses, key) ELSE 0
  IN  ObjSet(monthlyExpenses, key, cur + expense.amount)

RECURSIVE ForEachExpense(_, _)
ForEachExpense(monthlyExpenses, expenses) ==
  IF expenses = <<>> THEN monthlyExpenses
  ELSE ForEachExpense(GroupStep(monthlyExpenses, Head(expenses)), Tail(expenses))

\* groupExpensesByMonth of src/unnamed/part_000: over the documents it is given.
groupExpensesByMonthLegacy(expenses) == ForEachExpense(<<>>, expenses)

RECURSIVE ForEachItem(_, _)
ForEachItem(monthlyExpenses, result) ==
  IF result = <<>> THEN monthlyExpenses
  ELSE ForEachItem(
         ObjSet(monthlyExpenses,
                MonthKey(Head(result)._id.month, Head(result)._id.year),
                Head(result).totalAmount),
         Tail(result))

\* groupExpensesByMonth of src/despesas-casa/api/index.js: it takes no
\* argument and aggregates the whole collection.
groupExpensesByMonth(docs) == ForEachItem(<<>>, Aggregate(docs))

----------------------------------------------------------------------------
(* Requests. One read request (GET /, GET /summary) is in flight at a      *)
(* time, req holding its position and its local variables; the write       *)
(* requests, which make one store call each, run between its steps. resp   *)
(* is the response being sent: a handler writes it, ResponseSent takes it   *)
(* off, and the next request is handled after that. The response of a      *)
(* write that runs while a read request is in flight is not kept.          *)

Idle == [pc |-> "idle", handler |-> "none"]

NoResponse == [status |-> 0, view |-> "none", handler |-> "none"]

\* res.status(code).send(message) of a handler; issued lists the store calls
\* the request has made.
Send(handler, code, issued) ==
  [status |-> code, view |-> "none", handler |-> handler, issued |-> issued]

\* res.redirect(...)
Redirect(handler) ==
  [status |-> 302, view |-> "none", handler |-> handler, issued |-> <<>>]

\* No response is waiting to be sent.
Ready == resp.status = 0

\* The response is on its way and the server takes the next request.
ResponseSent ==
  /\ ~Ready
  /\ resp' = NoResponse
  /\ UNCHANGED <<store, req>>

\* The response of a write request.
WriteResponse(r) == IF req.pc = "idle" THEN r ELSE resp

\* const { page = 1, limit = 10 } = req.query
DefaultPage == 1
DefaultLimit == 10
OrDefault(x, d) == IF x.t = "undef" THEN Num(d) ELSE x

\* The query strings <<page, limit>> of GET / in the model.
IndexQueries ==
  {<<Undefined, Undefined>>,
   <<Str(<<"2">>), Str(<<"1">>)>>,
   <<Str(<<"3">>), Str(<<"1">>)>>,
   <<Str(<<"2">>), Str(<<"2">>)>>,
   <<Undefined, Str(<<"0">>)>>,
   <<Str(<<"0">>), Undefined>>}

\* A skip the store accepts: MongoDB rejects a negative skip.
SkipAccepted(skip) == IsNum(skip) /\ skip.v >= 0

\* The skip without the - 1: page * limit.
SkipOfPageTimesLimit(page, limit) == JsMul(page, limit)

\* (page - 1) * limit
SkipOf(page, limit) == JsMul(JsSub(page, Num(1)), limit)

\* GET / of src/despesas-casa/api/index.js, up to the first await.
IndexStart(qpage, qlimit) ==
  /\ Ready
  /\ req.pc = "idle"
  /\ req' = [pc |-> "find", handler |-> "index",
             page |-> OrDefault(qpage, DefaultPage),
             limit |-> OrDefault(qlimit, DefaultLimit),
             qpage |-> qpage, qlimit |-> qlimit,
             expenses |-> <<>>, monthlyExpenses |-> <<>>,
             aggCount |-> 0,
             writtenAfterFind |-> FALSE, writtenAfterAggregate |-> FALSE,
             issued |-> <<"find">>]
  /\ resp' = NoResponse
  /\ UNCHANGED store

\* await Expense.find({}).skip((page - 1) * limit).limit(parseInt(limit))
\* returns.
IndexFind ==
  /\ req.pc = "find" /\ req.handler = "index"
  /\ SkipAccepted(SkipOf(req.page, req.limit)) /\ IsNum(parseInt(req.limit))
  /\ req' = [req EXCEPT !.pc = "aggregate",
                        !.expenses = SkipLimit(FindAll(store),
                                               SkipOf(req.page, req.limit).v,
                                               parseInt(req.limit).v),
                        !.issued = Append(@, "aggregate")]
  /\ UNCHANGED <<store, resp>>

\* await groupExpensesByMonth(expenses) returns. The function takes no
\* parameter and expenses is not read again: req keeps it no longer.
IndexAggregate ==
  /\ req.pc = "aggregate"
  /\ req' = [req EXCEPT !.pc = "count",
                        !.expenses = <<>>,
                        !.monthlyExpenses = groupExpensesByMonth(store),
                        !.aggCount = Len(store),
                        !.issued = Append(@, "count")]
  /\ UNCHANGED <<store, resp>>

\* Math.floor in the place of Math.ceil.
TotalPagesFloor(totalExpenses, limit) ==
  IF IsNum(ToNumber(limit)) /\ ToNumber(limit).v > 0
  THEN Num(totalExpenses \div ToNumber(limit).v)
  ELSE CeilDiv(Num(totalExpenses), limit)

\* Math.ceil(totalExpenses / limit)
TotalPages(totalExpenses, limit) == CeilDiv(Num(totalExpenses), limit)

\* res.render('index', { title, monthlyExpenses, currentPage, totalPages })
RenderIndex(r, totalExpenses) ==
  [status |-> 200, view |-> "index", handler |-> "index",
   monthlyExpenses |-> r.monthlyExpenses,
   currentPage |-> parseInt(r.page),
   totalPages |-> TotalPages(totalExpenses, r.limit),
   qpage |-> r.qpage, qlimit |-> r.qlimit,
   aggCount |-> r.aggCount,
   writtenAfterFind |-> r.writtenAfterFind,
   writtenAfterAggregate |-> r.writtenAfterAggregate,
   issued |-> r.issued]

\* await Expense.countDocuments() returns, and the page is rendered.
IndexCount ==
  /\ req.pc = "count"
  /\ resp' = RenderIndex(req, countDocuments(store))
  /\ req' = Idle
  /\ UNCHANGED store

\* A catch block that renders the page with what it has.
IndexCatchRendersPartial(r) == RenderIndex(r, 0)

\* The catch block of GET /.
IndexCatchResponse(r) ==
  Send("index", 500, r.issued) @@ [qpage |-> r.qpage, qlimit |-> r.qlimit]

\* One of the three awaited queries of GET / rejects.
IndexCatch ==
  /\ req.handler = "index"
  /\ req.pc \in {"find", "aggregate", "count"}
  /\ resp' = IndexCatchResponse(req)
  /\ req' = Idle
  /\ UNCHANGED store

----------------------------------------------------------------------------
(* GET / of src/unnamed/part_000: every document, grouped in the handler.  *)

LegacyIndexStart ==
  /\ Ready
  /\ req.pc = "idle"
  /\ req' = [pc |-> "find", handler |-> "legacyIndex", issued |-> <<"find">>]
  /\ resp' = NoResponse
  /\ UNCHANGED store

\* res.render('index', { title, monthlyExpenses })
RenderLegacyIndex(r, expenses) ==
  [status |-> 200, view |-> "index", handler |-> "legacyIndex",
   monthlyExpenses |-> groupExpensesByMonthLegacy(expenses),
   issued |-> r.issued]

LegacyIndexFind ==
  /\ req.pc = "find" /\ req.handler = "legacyIndex"
  /\ resp' = RenderLegacyIndex(req, FindAll(store))
  /\ req' = Idle
  /\ UNCHANGED store

LegacyIndexCatch ==
  /\ req.pc = "find" /\ req.handler = "legacyIndex"
  /\ resp' = Send("legacyIndex", 500, req.issued)
  /\ req' = Idle
  /\ UNCHANGED store

----------------------------------------------------------------------------
(* GET /summary, the same in both files.                                   *)

\* The query strings of GET /summary in the model.
MonthValues ==
  {Undefined, Str(<<>>), Str(<<"0">>), Str(<<"2">>), Str(<<"1", "2">>),
   Str(<<"1", "3">>), Str(<<"x">>)}
YearValues ==
  {Undefined, Str(<<"2", "0", "2", "3">>), Str(<<"2", "0", "2", "4">>), Str(<<"x">>)}

\* The days new Date() may give.
NowValues == {DaysFromCivil(2024, 2, 15), DaysFromCivil(2023, 12, 20)}

\* The default taken as a month of 1..12: now.getMonth() + 1.
ResolveMonthDefaultOneBased(month, now) ==
  IF Truthy(month) THEN JsSub(parseInt(month), Num(1)) ELSE Num(getMonth(now) + 1)

\* month = month ? parseInt(month) - 1 : now.getMonth()
ResolveMonth(month, now) ==
  IF Truthy(month) THEN JsSub(parseInt(month), Num(1)) ELSE Num(getMonth(now))

\* year = year ? parseInt(year) : now.getFullYear()
ResolveYear(year, now) ==
  IF Truthy(year) THEN parseInt(year) ELSE Num(getFullYear(now))

\* $gte: new Date(year, month, 1)
WindowStart(year, month) == NewDate(year, month, 1)

\* The upper bound with the month wrapped and the year kept:
\* new Date(year, (month + 1) % 12, 1).
WindowEndSameYear(year, month) ==
  IF IsNum(month) THEN NewDate(year, Num((month.v + 1) % 12), 1) ELSE NaN

\* $lt: new Date(year, month + 1, 1)
WindowEnd(year, month) == NewDate(year, JsAdd(month, Num(1)), 1)

\* The query casts its two dates first; an invalid Date fails the cast.
CastsToDate(d) == IsNum(d)

\* GET /summary up to the await, the two dates valid.
SummaryStart(qmonth, qyear, now) ==
  LET month == ResolveMonth(qmonth, now)
      year == ResolveYear(qyear, now)
  IN  /\ Ready
      /\ req.pc = "idle"
      /\ CastsToDate(WindowStart(year, month))
      /\ CastsToDate(WindowEnd(year, month))
      /\ req' = [pc |-> "find", handler |-> "summary",
                 qmonth |-> qmonth, qyear |-> qyear, now |-> now,
                 month |-> month, year |-> year,
                 gte |-> WindowStart(year, month).v,
                 lt |-> WindowEnd(year, month).v,
                 issued |-> <<"find">>]
      /\ resp' = NoResponse
      /\ UNCHANGED store

\* The catch block of GET /summary.
SummaryCatchResponse(qmonth, qyear, now, issued) ==
  Send("summary", 500, issued) @@ [qmonth |-> qmonth, qyear |-> qyear, now |-> now]

\* GET /summary with a month or year that parses to NaN: the cast of the
\* query throws inside the try, before anything is sent to the store.
SummaryCastError(qmonth, qyear, now) ==
  LET month == ResolveMonth(qmonth, now)
      year == ResolveYear(qyear, now)
  IN  /\ Ready
      /\ req.pc = "idle"
      /\ ~(CastsToDate(WindowStart(year, month)) /\ CastsToDate(WindowEnd(year, month)))
      /\ resp' = SummaryCatchResponse(qmonth, qyear, now, <<>>)
      /\ UNCHANGED <<store, req>>

\* A reduce seeded with the first amount, which it then adds again.
reduceSeededWithFirst(expenses, sum) ==
  IF expenses = <<>> THEN sum ELSE Head(expenses).amount + SumAmounts(expenses)

\* expenses.reduce((sum, expense) => sum + expense.amount, 0)
RECURSIVE reduce(_, _)
reduce(expenses, sum) ==
  IF expenses = <<>> THEN sum
  ELSE reduce(Tail(expenses), sum + Head(expenses).amount)

\* res.render('summary', { expenses, total, month: month + 1, year, title })
RenderSummary(r, expenses) ==
  [status |-> 200, view |-> "summary", handler |-> "summary",
   expenses |-> expenses,
   total |-> reduce(expenses, 0),
   month |-> JsAdd(r.month, Num(1)),
   year |-> r.year,
   qmonth |-> r.qmonth, qyear |-> r.qyear, now |-> r.now,
   gte |-> r.gte, lt |-> r.lt,
   issued |-> r.issued]

SummaryFind ==
  /\ req.pc = "find" /\ req.handler = "summary"
  /\ resp' = RenderSummary(req, FindRange(store, req.gte, req.lt))
  /\ req' = Idle
  /\ UNCHANGED store

SummaryCatch ==
  /\ req.pc = "find" /\ req.handler = "summary"
  /\ resp' = SummaryCatchResponse(req.qmonth, req.qyear, req.now, req.issued)
  /\ req' = Idle
  /\ UNCHANGED store

----------------------------------------------------------------------------
(* POST /add, POST /edit/:id, POST /delete/:id: one store call each.       *)

Body(name, amount, date) ==
  [name |-> Str(name), amount |-> Str(amount), date |-> Str(date),
   category |-> Str(<<"c">>)]

\* The request bodies of the model: four expenses, and one with the name
\* left empty.
Bodies ==
  {Body(<<"n">>, <<"1">>, <<"2", "0", "2", "3", "-", "1", "2", "-", "3", "1">>),
   Body(<<"n">>, <<"3">>, <<"2", "0", "2", "4", "-", "0", "2", "-", "0", "1">>),
   Body(<<"n">>, <<"2">>, <<"2", "0", "2", "4", "-", "0", "2", "-", "2", "9">>),
   Body(<<"n">>, <<"1">>, <<"2", "0", "2", "4", "-", "0", "3", "-", "0", "1">>),
   Body(<<>>, <<"1">>, <<"2", "0", "2", "4", "-", "0", "3", "-", "0", "1">>)}

\* if (!name || !amount || !date || !category)
MissingField(body) ==
  ~Truthy(body.name) \/ ~Truthy(body.amount) \/ ~Truthy(body.date)
    \/ ~Truthy(body.category)

\* The schema casts amount to a Number and date to a Date.
CastsToExpense(body) == IsNum(parseFloat(body.amount)) /\ IsNum(ParseDate(body.date))

\* { name, amount: parseFloat(amount), date: new Date(date), category }
ExpenseOf(body) ==
  [amount |-> parseFloat(body.amount).v, date |-> ParseDate(body.date).v]

\* What a write that changes the collection leaves of the read request in
\* flight. After the find the page slice, which is not read again, is kept no
\* longer; that the collection changed after the find, and after the
\* aggregation, is recorded.
NoteWrite(r, changed) ==
  IF ~changed \/ r.handler # "index" THEN r
  ELSE IF r.pc = "count" THEN [r EXCEPT !.writtenAfterAggregate = TRUE]
  ELSE IF r.pc = "aggregate"
       THEN [r EXCEPT !.expenses = <<>>, !.writtenAfterFind = TRUE]
  ELSE r

AddMissingField(body) ==
  /\ Ready
  /\ MissingField(body)
  /\ resp' = WriteResponse(Send("add", 400, <<>>))
  /\ req' = NoteWrite(req, FALSE)
  /\ UNCHANGED store

\* await newExpense.save()
AddSave(body) ==
  /\ Ready
  /\ ~MissingField(body)
  /\ CastsToExpense(body)
  /\ Len(store) < MaxStore
  /\ store' = Append(store, ExpenseOf(body))
  /\ req' = NoteWrite(req, TRUE)
  /\ resp' = WriteResponse(Redirect("add"))

AddCatch(body) ==
  /\ Ready
  /\ ~MissingField(body)
  /\ resp' = WriteResponse(Send("add", 500, <<"save">>))
  /\ req' = NoteWrite(req, FALSE)
  /\ UNCHANGED store

\* Expense.findByIdAndUpdate(id, { ... }): id names the document at position i,
\* or none (i = 0).
findByIdAndUpdate(docs, i, body) ==
  IF i \in 1..Len(docs) THEN [docs EXCEPT ![i] = ExpenseOf(body)] ELSE docs

Edit(i, body) ==
  /\ Ready
  /\ i \in 0..Len(store)
  /\ CastsToExpense(body)
  /\ store' = findByIdAndUpdate(store, i, body)
  /\ req' = NoteWrite(req, store' # store)
  /\ resp' = WriteResponse(Redirect("edit"))

EditCatch ==
  /\ Ready
  /\ resp' = WriteResponse(Send("edit", 500, <<"findByIdAndUpdate">>))
  /\ req' = NoteWrite(req, FALSE)
  /\ UNCHANGED store

\* Expense.findByIdAndDelete(id)
findByIdAndDelete(docs, i) ==
  IF i \in 1..Len(docs)
  THEN [j \in 1..(Len(docs) - 1) |-> IF j < i THEN docs[j] ELSE docs[j + 1]]
  ELSE docs

Delete(i) ==
  /\ Ready
  /\ i \in 0..Len(store)
  /\ store' = findByIdAndDelete(store, i)
  /\ req' = NoteWrite(req, store' # store)
  /\ resp' = WriteResponse(Redirect("delete"))

DeleteCatch ==
  /\ Ready
  /\ resp' = WriteResponse(Send("delete", 500, <<"findByIdAndDelete">>))
  /\ req' = NoteWrite(req, FALSE)
  /\ UNCHANGED store

----------------------------------------------------------------------------

Init ==
  /\ store = <<>>
  /\ req = Idle
  /\ resp = NoResponse

Next ==
  \/ \E q \in IndexQueries : IndexStart(q[1], q[2])
  \/ IndexFind
  \/ IndexAggregate
  \/ IndexCount
  \/ IndexCatch
  \/ LegacyIndexStart
  \/ LegacyIndexFind
  \/ LegacyIndexCatch
  \/ \E m \in MonthValues, y \in YearValues, now \in NowValues :
       SummaryStart(m, y, now)
  \/ \E m \in MonthValues, y \in YearValues, now \in NowValues :
       SummaryCastError(m, y, now)
  \/ SummaryFind
  \/ SummaryCatch
  \/ \E body \in Bodies : AddMissingField(body)
  \/ \E body \in Bodies : AddSave(body)
  \/ \E body \in Bodies : AddCatch(body)
  \/ \E i \in 0..MaxStore, body \in Bodies : Edit(i, body)
  \/ EditCatch
  \/ \E i \in 0..MaxStore : Delete(i)
  \/ DeleteCatch
  \/ ResponseSent

Spec == Init /\ [][Next]_vars

----------------------------------------------------------------------------
(* Properties.                                                             *)

\* The numerals among the query strings, read as a person reads them.
NumeralOf ==
  (<<"0">> :> 0) @@ (<<"1">> :> 1) @@ (<<"2">> :> 2) @@ (<<"3">> :> 3)
    @@ (<<"1", "2">> :> 12) @@ (<<"1", "3">> :> 13)
    @@ (<<"2", "0", "2", "3">> :> 2023) @@ (<<"2", "0", "2", "4">> :> 2024)

IsNumeral(q) == q.t = "str" /\ q.s \in DOMAIN NumeralOf

\* The sum of the amounts of the first n documents.
RECURSIVE AmountsTo(_, _)
AmountsTo(docs, n) == IF n = 0 THEN 0 ELSE docs[n].amount + AmountsTo(docs, n - 1)

AmountsOf(docs) == AmountsTo(docs, Len(docs))

RECURSIVE ValuesTo(_, _)
ValuesTo(obj, n) == IF n = 0 THEN 0 ELSE obj[n].value + ValuesTo(obj, n - 1)

\* The bucket "m/y" of a document.
BucketOf(e) ==
  ToString(CivilFromDays(e.date).month) \o "/" \o ToString(CivilFromDays(e.date).year)

\* obj is the monthly mapping of docs.
GroupedByMonth(obj, docs) ==
  /\ \A i, j \in 1..Len(obj) : obj[i].key = obj[j].key => i = j
  /\ {obj[i].key : i \in 1..Len(obj)} = {BucketOf(docs[i]) : i \in 1..Len(docs)}
  /\ \A i \in 1..Len(docs) : CivilFromDays(docs[i].date).month \in 1..12
  /\ \A i \in 1..Len(obj) :
       obj[i].value = AmountsOf(SelectSeq(docs, LAMBDA e : BucketOf(e) = obj[i].key))
  /\ ValuesTo(obj, Len(obj)) = AmountsOf(docs)
  /\ docs = <<>> => obj = <<>>

\* C1: the mapping of groupExpensesByMonth has a key "m/y" exactly for the
\* (month, year) pairs of the records' dates, the value at "m/y" is the sum of
\* the amounts of the records of that month, the totals add up to the sum of
\* all amounts, and no record gives the empty mapping. Stated of both
\* functions, against the collection the mapping was computed from.
C1_GroupedByMonth ==
  /\ (resp.handler = "legacyIndex" /\ resp.view = "index")
       => GroupedByMonth(resp.monthlyExpenses, store)
  /\ (req.handler = "index" /\ req.pc = "count" /\ ~req.writtenAfterAggregate)
       => GroupedByMonth(req.monthlyExpenses, store)
  /\ (resp.handler = "index" /\ resp.view = "index" /\ ~resp.writtenAfterAggregate)
       => GroupedByMonth(resp.monthlyExpenses, store)

\* Two expenses of February 2024 (3 and 2) are summed under "2/2024".
C1_Witness ==
  /\ resp.handler = "legacyIndex" /\ resp.view = "index"
  /\ Len(store) = 2
  /\ resp.monthlyExpenses = <<[key |-> "2/2024", value |-> 5]>>

KeyYears == 2023..2024

\* Key k1 is of an earlier month than key k2.
KeyBefore(k1, k2) ==
  \E m1, m2 \in 1..12, y1, y2 \in KeyYears :
    /\ k1 = ToString(m1) \o "/" \o ToString(y1)
    /\ k2 = ToString(m2) \o "/" \o ToString(y2)
    /\ (y1 < y2 \/ (y1 = y2 /\ m1 < m2))

KeysAscending(obj) ==
  \A i \in 1..(Len(obj) - 1) : KeyBefore(obj[i].key, obj[i + 1].key)

\* C2: the keys of the mapping of groupExpensesByMonth are enumerated in
\* ascending order of (year, month), whatever the order of the records.
C2_KeysAscending ==
  /\ resp.view = "index" => KeysAscending(resp.monthlyExpenses)
  /\ (req.handler = "index" /\ req.pc = "count")
       => KeysAscending(req.monthlyExpenses)

\* The part of C2 the aggregation pipeline of src/despesas-casa/api/index.js
\* has: its $sort stage orders the keys.
AggregateKeysAscending ==
  /\ (resp.view = "index" /\ resp.handler = "index")
       => KeysAscending(resp.monthlyExpenses)
  /\ (req.handler = "index" /\ req.pc = "count")
       => KeysAscending(req.monthlyExpenses)

\* The first day of month m of year y, and of the month after it.
FirstOfMonth(y, m) == DaysFromCivil(y, m, 1)
FirstOfNextMonth(y, m) ==
  IF m = 12 THEN DaysFromCivil(y + 1, 1, 1) ELSE DaysFromCivil(y, m + 1, 1)

\* GET /summary was given a month of 1..12 and a year.
MonthAndYearSupplied(r) ==
  /\ IsNumeral(r.qmonth) /\ NumeralOf[r.qmonth.s] \in 1..12
  /\ IsNumeral(r.qyear) /\ NumeralOf[r.qyear.s] >= 1000

C4_SummaryTotal ==
  resp.view = "summary"
    => /\ resp.total = AmountsOf(resp.expenses)
       /\ resp.status = 200
       /\ (\A i \in 1..Len(store) : ~(resp.gte <= store[i].date /\ store[i].date < resp.lt))
            => (resp.expenses = <<>> /\ resp.total = 0)

\* February 2024 with the expenses of the 1st (3) and the 29th (2): total 5.
C4_Witness ==
  /\ resp.view = "summary"
  /\ Len(resp.expenses) = 2
  /\ resp.total = 5

\* A query string that is there and is no month of 1..12, no integer.
BadMonth(q) == q.t = "str" /\ q.s # <<>> /\ ~(IsNumeral(q) /\ NumeralOf[q.s] \in 1..12)
BadYear(q) == q.t = "str" /\ q.s # <<>> /\ ~IsNumeral(q)

\* C5: a GET /summary whose month is there but outside 1..12, or whose year is
\* there but no integer, ends in an error reported to the caller, and no store
\* query is issued for it.
C5_SummaryRejectsBadInput ==
  /\ (req.handler = "summary" /\ (BadMonth(req.qmonth) \/ BadYear(req.qyear)))
       => req.issued = <<>>
  /\ (resp.handler = "summary" /\ (BadMonth(resp.qmonth) \/ BadYear(resp.qyear)))
       => (resp.status >= 400 /\ resp.issued = <<>>)

\* The page and limit of a GET /, each absent or a positive integer.
PositiveOrAbsent(q) == q.t = "undef" \/ (IsNumeral(q) /\ NumeralOf[q.s] >= 1)
ValidPaging(r) == PositiveOrAbsent(r.qpage) /\ PositiveOrAbsent(r.qlimit)
PageOf(r) == IF r.qpage.t = "undef" THEN 1 ELSE NumeralOf[r.qpage.s]
LimitOf(r) == IF r.qlimit.t = "undef" THEN 10 ELSE NumeralOf[r.qlimit.s]

\* The least t with t * l >= n: the ceiling of n / l.
CeilingOf(n, l) ==
  CHOOSE t \in 0..n : t * l >= n /\ \A u \in 0..n : u * l >= n => t <= u

\* The records of docs at the zero-based positions (p - 1) * l up to p * l.
PageSlice(docs, p, l) ==
  LET from == (p - 1) * l
      to == IF p * l < Len(docs) THEN p * l ELSE Len(docs)
  IN  [i \in 1..(IF to > from THEN to - from ELSE 0) |-> docs[from + i]]

C7_IndexRejectsBadInput ==
  /\ (req.handler = "index" /\ ~ValidPaging(req)) => req.issued = <<>>
  /\ (resp.handler = "index" /\ ~ValidPaging(resp))
       => (resp.status = 400 /\ resp.issued = <<>>)

ReadHandlers == {"index", "legacyIndex", "summary"}

\* The store queries of a read handler, in the order it issues them.
QueriesOf(handler) ==
  IF handler = "index" THEN <<"find", "aggregate", "count">> ELSE <<"find">>

IsPrefix(a, b) == Len(a) <= Len(b) /\ a = SubSeq(b, 1, Len(a))

RenderedFields ==
  {"monthlyExpenses", "currentPage", "totalPages", "expenses", "total", "month", "year"}

\* C8: GET / and GET /summary issue each of their store queries at most once;
\* a request renders only when every query was answered, and otherwise ends
\* with an error response that renders nothing; no step of theirs changes the
\* collection.
C8_ReadFailure ==
  [][/\ req'.handler \in ReadHandlers
          => IsPrefix(req'.issued, QueriesOf(req'.handler))
     /\ (req.handler \in ReadHandlers /\ req'.pc # req.pc) => store' = store
     /\ (resp' # resp /\ resp'.handler \in ReadHandlers)
          => /\ store' = store
             /\ req'.pc = "idle"
             /\ IsPrefix(resp'.issued, QueriesOf(resp'.handler))
             /\ resp'.status = 200 => resp'.issued = QueriesOf(resp'.handler)
             /\ resp'.status # 200
                  => /\ resp'.status = 500
                     /\ resp'.view = "none"
                     /\ DOMAIN resp' \cap RenderedFields = {}]_vars

\* The count of a GET / fails after its find and its aggregation were
\* answered: a 500 that renders nothing.
C8_Witness ==
  /\ resp.handler = "index" /\ resp.status = 500
  /\ resp.issued = <<"find", "aggregate", "count">>
  /\ store # <<>>

NowMonth(r) == CivilFromDays(r.now).month
NowYear(r) == CivilFromDays(r.now).year

\* The query string is undefined, or empty.
Defaulted(q) == q.t = "undef" \/ (q.t = "str" /\ q.s = <<>>)

\* C9 as stated: when month or year is absent, GET /summary resolves to the
\* month and the year of the current date; with both there and valid, to the
\* month and year supplied.
C9_DefaultsToNow ==
  resp.view = "summary"
    => /\ (resp.qmonth.t = "undef" \/ resp.qyear.t = "undef")
            => /\ resp.month = Num(NowMonth(resp))
               /\ resp.year = Num(NowYear(resp))
               /\ resp.gte = FirstOfMonth(NowYear(resp), NowMonth(resp))
       /\ MonthAndYearSupplied(resp)
            => /\ resp.month = Num(NumeralOf[resp.qmonth.s])
               /\ resp.year = Num(NumeralOf[resp.qyear.s])
               /\ resp.gte = FirstOfMonth(NumeralOf[resp.qyear.s],
                                          NumeralOf[resp.qmonth.s])

\* C9 amended: month and year are resolved each on its own. An absent (or
\* empty) month is the current month, an absent (or empty) year the current
\* year, and one that is there and valid is the one supplied; the window
\* starts on the first day of the month and year so resolved.
C9_DefaultsEachToNow ==
  resp.view = "summary"
    => /\ Defaulted(resp.qmonth) => resp.month = Num(NowMonth(resp))
       /\ Defaulted(resp.qyear) => resp.year = Num(NowYear(resp))
       /\ (IsNumeral(resp.qmonth) /\ NumeralOf[resp.qmonth.s] \in 1..12)
            => resp.month = Num(NumeralOf[resp.qmonth.s])
       /\ (IsNumeral(resp.qyear) /\ NumeralOf[resp.qyear.s] >= 1000)
            => resp.year = Num(NumeralOf[resp.qyear.s])
       /\ (resp.month.t = "num" /\ resp.month.v \in 1..12 /\ resp.year.t = "num")
            => /\ resp.gte = FirstOfMonth(resp.year.v, resp.month.v)
               /\ resp.lt = FirstOfNextMonth(resp.year.v, resp.month.v)

\* No month, the year 2023, on 2024-02-15: February 2023.
C9_Witness ==
  /\ resp.view = "summary"
  /\ resp.qmonth = Undefined /\ resp.qyear = Str(<<"2", "0", "2", "3">>)
  /\ resp.now = 19768
  /\ resp.month = Num(2) /\ resp.year = Num(2023)
  /\ resp.gte = 19389

\* C10 as stated: with writes interleaved, the three reads of one GET / see
\* the same collection: totalPages is ceiling(n / limit) for the n records
\* whose amounts make up the monthly totals.
C10_ReadsAgree ==
  (resp.handler = "index" /\ resp.view = "index" /\ ValidPaging(resp))
    => resp.totalPages = Num(CeilingOf(resp.aggCount, LimitOf(resp)))

\* C10 amended: each read of a GET / sees the collection as it is when the
\* read runs; totalPages is ceiling(n / limit) for the n records behind the
\* monthly totals when no write changed the collection between the
\* aggregation and the count.
C10_ReadsAgreeUnlessWritten ==
  (resp.handler = "index" /\ resp.view = "index" /\ ValidPaging(resp)
     /\ ~resp.writtenAfterAggregate)
    => resp.totalPages = Num(CeilingOf(resp.aggCount, LimitOf(resp)))

\* A write between the find and the aggregation, none after: two pages for
\* the two records of the monthly totals.
C10_Witness ==
  /\ resp.handler = "index" /\ resp.view = "index"
  /\ resp.writtenAfterFind /\ ~resp.writtenAfterAggregate
  /\ resp.qlimit = Str(<<"1">>)
  /\ resp.aggCount = 2 /\ resp.totalPages = Num(2)

====
